---- MODULE Spec2Model ----
(***************************************************************************)
(* Stronghold procedure engine (client/src/procedures/primitives.rs) and   *)
(* the command line client's vault handle (commandline/src/client/         *)
(* client.rs).                                                             *)
(*                                                                         *)
(* Byte strings are sequences of naturals.  The cryptography provider is   *)
(* an external crate; its primitives are modelled as deterministic         *)
(* functions of their inputs that keep the provider's lengths and its      *)
(* argument checks, not its arithmetic.                                    *)
(***************************************************************************)
EXTENDS Integers, Sequences, FiniteSets, TLC

VARIABLES
    declared,   \* what output() told the caller before the procedure ran
    vault,      \* runner: Location -> record or Absent
    leases,     \* runner: number of guarded leases currently open
    pc,         \* step of the procedure being executed
    proc,       \* the procedure value being executed
    guard,      \* contents of the open lease (GuardedVec<u8>)
    products,   \* what the primitive returned
    result,     \* what execute returned to the caller
    preVault,   \* the vault when the current procedure was dispatched
    nprocs,     \* procedures dispatched so far
    fedFrom,    \* the AeadEncrypt request whose output the caller split into proc
    db,         \* client: the server's transactions
    store,      \* client: Vault.store, RefCell<Option<DBView>>
    taken,      \* client: the DBView take moved out of store, held by the closure
    cpc,        \* client: position inside the running operation
    cop,        \* client: the running operation
    queue,      \* client: requests the closure has still to send
    sent,       \* client: requests acknowledged during the running take
    nops,       \* client: operations started so far
    got         \* client: the last get_entry_by_index call and how it ended

engineVars == <<declared, vault, leases, pc, proc, guard, products, result, preVault, nprocs,
               fedFrom>>
clientVars == <<db, store, taken, cpc, cop, queue, sent, nops, got>>
vars == <<declared, vault, leases, pc, proc, guard, products, result, preVault, nprocs,
          fedFrom,
          db, store, taken, cpc, cop, queue, sent, nops, got>>

----------------------------------------------------------------------------
(* Bounds of the model. *)

MaxProcs == 2
MaxOps == 2
MaxIndex == 3

----------------------------------------------------------------------------
(* Constants of the cryptography provider, as the source names them. *)

SHA256_LEN == 32
SHA384_LEN == 48
SHA512_LEN == 64
BLAKE2B256_LEN == 32
X25519_SECRET_KEY_LENGTH == 32
ED25519_SECRET_KEY_LENGTH == 32
ED25519_SIGNATURE_LENGTH == 64
SLIP10_KEY_LENGTH == 64
SLIP10_DEFAULT_SIZE == 64
BIP39_ENTROPY_LENGTH == 32
BIP39_SEED_LENGTH == 64
AEAD_KEY_LENGTH == 32
AES256GCM_NONCE_LENGTH == 12
XCHACHA20POLY1305_NONCE_LENGTH == 24
AEAD_TAG_LENGTH == 16

----------------------------------------------------------------------------
(* Byte strings. *)

Fill(n, b) == [i \in 1..n |-> b]

RECURSIVE Sum(_)
Sum(s) == IF s = <<>> THEN 0 ELSE Head(s) + Sum(Tail(s))

Truncate(s, n) == IF Len(s) <= n THEN s ELSE SubSeq(s, 1, n)

(* Result<T, E> *)
Ok(v) == [ok |-> TRUE, val |-> v]
Err(k) == [ok |-> FALSE, kind |-> k]

(* Option<T> *)
None == [some |-> FALSE]
Some(v) == [some |-> TRUE, val |-> v]
unwrap_or(o, d) == IF o.some THEN o.val ELSE d

(* FatalProcedureError: what a primitive returns; the ? operator converts the
   provider's crypto::Error into it.  ProcedureError: what execute returns. *)
FatalProcedureError(k) == [ok |-> FALSE, kind |-> k, fatal |-> TRUE]
ProcedureError(k, f) == [ok |-> FALSE, kind |-> k, fatal |-> f]

(* Products<T> *)
Products(s, o) == [secret |-> s, output |-> o]
Unit == "()"

----------------------------------------------------------------------------
(* The cryptography provider. *)

Digest(len, msg) == Fill(len, (Sum(msg) + len) % 3)

Mac(len, msg, key) == Fill(len, (Sum(msg) + 2 * Sum(key) + len) % 3)

HkdfExpand(len, salt, ikm, label) ==
    Fill(len, (Sum(salt) + 2 * Sum(ikm) + Sum(label) + len + 1) % 3)

Pbkdf2(len, password, salt, count) ==
    Fill(len, (Sum(password) + Sum(salt) + count + len) % 3)

x25519_public_key(sk) == Fill(32, (Sum(sk) + 1) % 3)
x25519_diffie_hellman(sk, pk) == Fill(32, (Sum(sk) + Sum(pk)) % 3)
ed25519_public_key(sk) == Fill(32, (Sum(sk) + 2) % 3)
ed25519_sign(sk, msg) == Fill(ED25519_SIGNATURE_LENGTH, (Sum(sk) + Sum(msg)) % 3)

bip39_encode(entropy, language) == <<language, Sum(entropy) % 3>>
bip39_mnemonic_to_seed(mnemonic, passphrase) ==
    Fill(BIP39_SEED_LENGTH, (mnemonic[2] + Sum(passphrase)) % 3)

(* slip10: an extended key is 32 bytes of key followed by 32 bytes of chain
   code; a chain is a sequence of segments, each hardened or not. *)
Segment(h, i) == [hardened |-> h, index |-> i]

slip10_ext(k, c) == Fill(32, k % 3) \o Fill(32, c % 3)

slip10_master(seed) == slip10_ext(Sum(seed), Sum(seed) + 1)

slip10_chain_code(key) == SubSeq(key, 33, 64)

RECURSIVE slip10_derive(_, _)
slip10_derive(key, chain) ==
    IF chain = <<>> THEN Ok(key)
    ELSE IF ~Head(chain).hardened THEN Err("InvalidArgumentError")
    ELSE slip10_derive(slip10_ext(key[1] + key[33] + Head(chain).index,
                                  key[33] + Head(chain).index + 1),
                       Tail(chain))

slip10_key_try_from(bytes) ==
    IF Len(bytes) # SLIP10_KEY_LENGTH THEN Err("BufferSize") ELSE Ok(bytes)

(* AEAD: try_encrypt and try_decrypt check the key and nonce lengths, and
   try_decrypt authenticates the tag before it releases the plaintext. *)
NonceLength(alg) ==
    IF alg = "Aes256Gcm" THEN AES256GCM_NONCE_LENGTH ELSE XCHACHA20POLY1305_NONCE_LENGTH

KeyStream(key, nonce) == (Sum(key) + 2 * Sum(nonce) + 1) % 256

AeadTag(key, nonce, ad, ctx) ==
    Fill(AEAD_TAG_LENGTH, (Sum(key) + Sum(nonce) + 3 * Sum(ad) + 5 * Sum(ctx) + 7) % 256)

try_encrypt(alg, key, nonce, ad, ptx) ==
    IF Len(key) # AEAD_KEY_LENGTH \/ Len(nonce) # NonceLength(alg)
    THEN Err("BufferSize")
    ELSE LET ctx == [i \in 1..Len(ptx) |-> (ptx[i] + KeyStream(key, nonce)) % 256]
         IN  Ok([ctx |-> ctx, tag |-> AeadTag(key, nonce, ad, ctx)])

try_decrypt(alg, key, nonce, ad, ctx, tag) ==
    IF Len(key) # AEAD_KEY_LENGTH \/ Len(nonce) # NonceLength(alg)
       \/ Len(tag) # AEAD_TAG_LENGTH
    THEN Err("BufferSize")
    ELSE IF tag # AeadTag(key, nonce, ad, ctx)
    THEN Err("CipherError")
    ELSE Ok([i \in 1..Len(ctx) |-> (ctx[i] + 256 - KeyStream(key, nonce)) % 256])

(* fill: the system's randomness; it may fail. *)
RandomBytes(n) == {Fill(n, 1), Fill(n, 2)}

----------------------------------------------------------------------------
(* Procedure values.  Every variant keeps the fields of its struct. *)

Loc == {"A", "B"}
ProcHint == "hint-proc"
InitHint == "hint-init"
Msg == <<1, 2>>
Key32 == Fill(32, 1)
Sha2Hash == {"Sha256", "Sha384", "Sha512"}
HashType == {"Blake2b"} \cup Sha2Hash
KeyType == {"Ed25519", "X25519"}
AeadAlg == {"Aes256Gcm", "XChaCha20Poly1305"}
Nonces == {Fill(AES256GCM_NONCE_LENGTH, 0), Fill(XCHACHA20POLY1305_NONCE_LENGTH, 0)}
GoodCtx ==
    [i \in 1..2 |-> (Msg[i] + KeyStream(Key32, Fill(AES256GCM_NONCE_LENGTH, 0))) % 256]
GoodTag == AeadTag(Key32, Fill(AES256GCM_NONCE_LENGTH, 0), <<>>, GoodCtx)
BadTag == Fill(AEAD_TAG_LENGTH, 0)

CopyRecordProcs ==
    [variant : {"CopyRecord"}, input : Loc, output : Loc, hint : {ProcHint}]
Slip10GenerateProcs ==
    [variant : {"Slip10Generate"}, size_bytes : {None, Some(32)}, output : Loc,
     hint : {ProcHint}]
Slip10DeriveProcs ==
    [variant : {"Slip10Derive"},
     chain : {<<Segment(TRUE, 1)>>, <<Segment(TRUE, 0), Segment(FALSE, 1)>>},
     parent_ty : {"Seed", "Key"}, input : Loc, output : Loc, hint : {ProcHint}]
BIP39GenerateProcs ==
    [variant : {"BIP39Generate"}, passphrase : {None},
     language : {"English", "Japanese"}, output : Loc, hint : {ProcHint}]
BIP39RecoverProcs ==
    [variant : {"BIP39Recover"}, passphrase : {None, Some(<<1>>)},
     mnemonic : {<<"English", 1>>}, output : Loc, hint : {ProcHint}]
GenerateKeyProcs ==
    [variant : {"GenerateKey"}, ty : KeyType, output : Loc, hint : {ProcHint}]
PublicKeyProcs ==
    [variant : {"PublicKey"}, ty : KeyType, private_key : Loc]
Ed25519SignProcs ==
    [variant : {"Ed25519Sign"}, msg : {Msg}, private_key : Loc]
X25519DiffieHellmanProcs ==
    [variant : {"X25519DiffieHellman"}, public_key : {Fill(32, 2)},
     private_key : Loc, shared_key : Loc, hint : {ProcHint}]
HashProcs ==
    [variant : {"Hash"}, ty : HashType, msg : {Msg}]
HmacProcs ==
    [variant : {"Hmac"}, ty : Sha2Hash, msg : {Msg}, key : Loc]
HkdfProcs ==
    [variant : {"Hkdf"}, ty : Sha2Hash, salt : {<<0>>}, label : {<<1>>},
     ikm : Loc, okm : Loc, hint : {ProcHint}]
Pbkdf2HmacProcs ==
    [variant : {"Pbkdf2Hmac"}, ty : Sha2Hash, password : {<<1>>}, salt : {<<2>>},
     count : {0, 1}, output : Loc, hint : {ProcHint}]
AeadEncryptProcs ==
    [variant : {"AeadEncrypt"}, alg : AeadAlg, associated_data : {<<>>},
     plaintext : {Msg, <<>>, <<255>>}, nonce : Nonces, key : Loc]
AeadDecryptProcs ==
    [variant : {"AeadDecrypt"}, alg : AeadAlg, associated_data : {<<>>},
     ciphertext : {GoodCtx}, tag : {GoodTag, BadTag}, nonce : Nonces, key : Loc]

(* The AeadDecrypt request a caller builds from an AeadEncrypt request and
   its output. *)
DecryptOfOutput(enc, out) ==
    [variant |-> "AeadDecrypt", alg |-> enc.alg,
     associated_data |-> enc.associated_data,
     ciphertext |-> SubSeq(out, AEAD_TAG_LENGTH + 1, Len(out)),
     tag |-> SubSeq(out, 1, AEAD_TAG_LENGTH),
     nonce |-> enc.nonce, key |-> enc.key]

Procs ==
    CopyRecordProcs \cup Slip10GenerateProcs \cup Slip10DeriveProcs
    \cup BIP39GenerateProcs \cup BIP39RecoverProcs \cup GenerateKeyProcs
    \cup PublicKeyProcs \cup Ed25519SignProcs \cup X25519DiffieHellmanProcs
    \cup HashProcs \cup HmacProcs \cup HkdfProcs \cup Pbkdf2HmacProcs
    \cup AeadEncryptProcs \cup AeadDecryptProcs

----------------------------------------------------------------------------
(* The primitives.  Each returns the set of results it can produce: one
   result, except where it draws randomness. *)

(* `?` on a Result<_, crypto::Error> inside a primitive. *)
Try(r) == IF r.ok THEN r ELSE FatalProcedureError(r.kind)

ShaLen(ty) ==
    CASE ty = "Sha256" -> SHA256_LEN
      [] ty = "Sha384" -> SHA384_LEN
      [] ty = "Sha512" -> SHA512_LEN

PBKDF2_HMAC(ty, password, salt, count) ==
    IF count = 0 THEN Err("InvalidArgumentError")
    ELSE Ok(Pbkdf2(ShaLen(ty), password, salt, count))

fill(n) == {Ok(b) : b \in RandomBytes(n)} \cup {Err("SystemError")}

(* CopyRecord copying a key's worth of bytes instead of the whole record. *)
CopyRecord_derive_truncated(p, g) == {Ok(Products(Truncate(g, 32), Unit))}

CopyRecord_derive(p, g) == {Ok(Products(g, Unit))}

BIP39Generate_generate(p) ==
    {IF e.ok
     THEN LET mnemonic == bip39_encode(e.val, p.language)
              passphrase == unwrap_or(p.passphrase, <<>>)
          IN  Ok(Products(bip39_mnemonic_to_seed(mnemonic, passphrase), mnemonic))
     ELSE Try(e) : e \in fill(BIP39_ENTROPY_LENGTH)}

BIP39Recover_generate(p) ==
    {Ok(Products(bip39_mnemonic_to_seed(p.mnemonic, unwrap_or(p.passphrase, <<>>)),
                 Unit))}

Slip10Generate_generate(p) ==
    {IF e.ok THEN Ok(Products(e.val, Unit)) ELSE Try(e) :
        e \in fill(unwrap_or(p.size_bytes, SLIP10_DEFAULT_SIZE))}

Slip10Derive_derive(p, g) ==
    LET parent == IF p.parent_ty = "Key" THEN slip10_key_try_from(g)
                  ELSE Ok(slip10_master(g))
        dk == IF parent.ok THEN slip10_derive(parent.val, p.chain) ELSE parent
    IN  {IF dk.ok THEN Ok(Products(dk.val, slip10_chain_code(dk.val)))
         ELSE Try(dk)}

(* x25519_secret_key without its length check. *)
x25519_secret_key_unchecked(g) == Ok(g)

x25519_secret_key(g) ==
    IF Len(g) # X25519_SECRET_KEY_LENGTH THEN Err("BufferSize") ELSE Ok(g)

(* ed25519_secret_key asking for exactly 32 bytes, as x25519_secret_key does. *)
ed25519_secret_key_exact(g) ==
    IF Len(g) # ED25519_SECRET_KEY_LENGTH THEN Err("BufferSize") ELSE Ok(g)

ed25519_secret_key(g) ==
    IF Len(g) < ED25519_SECRET_KEY_LENGTH THEN Err("BufferSize")
    ELSE Ok(Truncate(g, ED25519_SECRET_KEY_LENGTH))

GenerateKey_generate(p) ==
    {IF e.ok THEN Ok(Products(e.val, Unit)) ELSE Try(e) :
        e \in fill(IF p.ty = "Ed25519" THEN ED25519_SECRET_KEY_LENGTH
                   ELSE X25519_SECRET_KEY_LENGTH)}

PublicKey_use_secret(p, g) ==
    IF p.ty = "Ed25519"
    THEN LET sk == ed25519_secret_key(g)
         IN  {IF sk.ok THEN Ok(ed25519_public_key(sk.val)) ELSE Try(sk)}
    ELSE LET sk == x25519_secret_key(g)
         IN  {IF sk.ok THEN Ok(x25519_public_key(sk.val)) ELSE Try(sk)}

Ed25519Sign_use_secret(p, g) ==
    LET sk == ed25519_secret_key(g)
    IN  {IF sk.ok THEN Ok(ed25519_sign(sk.val, p.msg)) ELSE Try(sk)}

X25519DiffieHellman_derive(p, g) ==
    LET sk == x25519_secret_key(g)
    IN  {IF sk.ok THEN Ok(Products(x25519_diffie_hellman(sk.val, p.public_key), Unit))
         ELSE Try(sk)}

Hash_process(p) ==
    {Ok(IF p.ty = "Blake2b" THEN Digest(BLAKE2B256_LEN, p.msg)
        ELSE Digest(ShaLen(p.ty), p.msg))}

Hmac_use_secret(p, g) == {Ok(Mac(ShaLen(p.ty), p.msg, g))}

Hkdf_derive(p, g) == {Ok(Products(HkdfExpand(ShaLen(p.ty), p.salt, g, p.label), Unit))}

Pbkdf2Hmac_generate(p) ==
    LET r == PBKDF2_HMAC(p.ty, p.password, p.salt, p.count)
    IN  {IF r.ok THEN Ok(Products(r.val, Unit)) ELSE Try(r)}

AeadEncrypt_use_secret_ctx_first(p, g) ==
    LET r == try_encrypt(p.alg, g, p.nonce, p.associated_data, p.plaintext)
    IN  {IF r.ok THEN Ok(r.val.ctx \o r.val.tag) ELSE Try(r)}

AeadEncrypt_use_secret(p, g) ==
    LET r == try_encrypt(p.alg, g, p.nonce, p.associated_data, p.plaintext)
    IN  {IF r.ok THEN Ok(r.val.tag \o r.val.ctx) ELSE Try(r)}

AeadDecrypt_use_secret_partial(p, g) ==
    LET r == try_decrypt(p.alg, g, p.nonce, p.associated_data, p.ciphertext, p.tag)
    IN  {IF r.ok THEN Ok(r.val)
         ELSE IF r.kind = "CipherError"
              THEN Ok([i \in 1..Len(p.ciphertext) |->
                          (p.ciphertext[i] + 256 - KeyStream(g, p.nonce)) % 256])
              ELSE Try(r)}

AeadDecrypt_use_secret(p, g) ==
    LET r == try_decrypt(p.alg, g, p.nonce, p.associated_data, p.ciphertext, p.tag)
    IN  {IF r.ok THEN Ok(r.val) ELSE Try(r)}

----------------------------------------------------------------------------
(* The dispatcher. *)

(* Hash dispatched as a Use variant. *)
Contract_hash_use(v) ==
    CASE v \in {"CopyRecord", "Slip10Derive", "X25519DiffieHellman", "Hkdf"} -> "Derive"
      [] v \in {"BIP39Generate", "BIP39Recover", "Slip10Generate", "GenerateKey",
                "Pbkdf2Hmac"} -> "Generate"
      [] v \in {"PublicKey", "Ed25519Sign", "Hmac", "AeadEncrypt", "AeadDecrypt",
                "Hash"} -> "Use"

(* Ed25519Sign dispatched as a Derive variant. *)
Contract_sign_derive(v) ==
    CASE v \in {"CopyRecord", "Slip10Derive", "X25519DiffieHellman", "Hkdf",
                "Ed25519Sign"} -> "Derive"
      [] v \in {"BIP39Generate", "BIP39Recover", "Slip10Generate", "GenerateKey",
                "Pbkdf2Hmac"} -> "Generate"
      [] v \in {"PublicKey", "Hmac", "AeadEncrypt", "AeadDecrypt"} -> "Use"
      [] v = "Hash" -> "Process"

(* Which execution contract each variant implements. *)
Contract(v) ==
    CASE v \in {"CopyRecord", "Slip10Derive", "X25519DiffieHellman", "Hkdf"} -> "Derive"
      [] v \in {"BIP39Generate", "BIP39Recover", "Slip10Generate", "GenerateKey",
                "Pbkdf2Hmac"} -> "Generate"
      [] v \in {"PublicKey", "Ed25519Sign", "Hmac", "AeadEncrypt", "AeadDecrypt"} -> "Use"
      [] v = "Hash" -> "Process"

(* derive and use_secret take a guard; generate and process do not. *)
NeedsLease(p) == Contract(p.variant) \in {"Derive", "Use"}

(* derive and generate return Products and declare a target; use_secret and
   process return only the non-secret output. *)
Persists(p) == Contract(p.variant) \in {"Derive", "Generate"}

source(p) ==
    CASE p.variant \in {"CopyRecord", "Slip10Derive"} -> p.input
      [] p.variant \in {"PublicKey", "Ed25519Sign", "X25519DiffieHellman"} -> p.private_key
      [] p.variant = "Hkdf" -> p.ikm
      [] p.variant \in {"Hmac", "AeadEncrypt", "AeadDecrypt"} -> p.key

target(p) ==
    CASE p.variant \in {"CopyRecord", "Slip10Derive", "BIP39Generate", "BIP39Recover",
                        "Slip10Generate", "GenerateKey", "Pbkdf2Hmac"}
            -> [loc |-> p.output, hint |-> p.hint]
      [] p.variant = "X25519DiffieHellman" -> [loc |-> p.shared_key, hint |-> p.hint]
      [] p.variant = "Hkdf" -> [loc |-> p.okm, hint |-> p.hint]

(* output naming X25519DiffieHellman's private key instead of its shared key. *)
output_dh_private(p) ==
    CASE p.variant \in {"CopyRecord", "Slip10Generate", "Slip10Derive", "BIP39Generate",
                        "BIP39Recover", "GenerateKey", "Pbkdf2Hmac"} -> Some(p.output)
      [] p.variant = "X25519DiffieHellman" -> Some(p.private_key)
      [] p.variant = "Hkdf" -> Some(p.okm)
      [] OTHER -> None

output(p) ==
    CASE p.variant \in {"CopyRecord", "Slip10Generate", "Slip10Derive", "BIP39Generate",
                        "BIP39Recover", "GenerateKey", "Pbkdf2Hmac"} -> Some(p.output)
      [] p.variant = "X25519DiffieHellman" -> Some(p.shared_key)
      [] p.variant = "Hkdf" -> Some(p.okm)
      [] OTHER -> None

generate(p) ==
    CASE p.variant = "BIP39Generate" -> BIP39Generate_generate(p)
      [] p.variant = "BIP39Recover" -> BIP39Recover_generate(p)
      [] p.variant = "Slip10Generate" -> Slip10Generate_generate(p)
      [] p.variant = "GenerateKey" -> GenerateKey_generate(p)
      [] p.variant = "Pbkdf2Hmac" -> Pbkdf2Hmac_generate(p)

derive(p, g) ==
    CASE p.variant = "CopyRecord" -> CopyRecord_derive(p, g)
      [] p.variant = "Slip10Derive" -> Slip10Derive_derive(p, g)
      [] p.variant = "X25519DiffieHellman" -> X25519DiffieHellman_derive(p, g)
      [] p.variant = "Hkdf" -> Hkdf_derive(p, g)

use_secret(p, g) ==
    CASE p.variant = "PublicKey" -> PublicKey_use_secret(p, g)
      [] p.variant = "Ed25519Sign" -> Ed25519Sign_use_secret(p, g)
      [] p.variant = "Hmac" -> Hmac_use_secret(p, g)
      [] p.variant = "AeadEncrypt" -> AeadEncrypt_use_secret(p, g)
      [] p.variant = "AeadDecrypt" -> AeadDecrypt_use_secret(p, g)

(* The guard kept alive when the primitive returns an error. *)
drop_guard_on_ok(n, r) == IF r.ok THEN n - 1 ELSE n

(* A primitive takes its GuardedVec by value: the guard is dropped, and the
   lease with it, when the primitive returns, with Ok or with Err. *)
drop_guard(n, r) == n - 1

----------------------------------------------------------------------------
(* The runner: one procedure at a time, from dispatch to its result. *)

Absent == [present |-> FALSE]
Record(d, h) == [present |-> TRUE, data |-> d, hint |-> h]
NoProc == [variant |-> "none"]
NoProducts == [empty |-> TRUE]
NoResult == [pending |-> TRUE]

InitData == {Key32, Fill(32, 3), Fill(31, 1), Key32 \o Fill(32, 2), <<222, 173, 190, 239>>}

Boundary == {"Constructed", "Done", "Failed"}

EngineInit ==
    /\ \E d \in InitData : vault = [l \in Loc |-> IF l = "A" THEN Record(d, InitHint) ELSE Absent]
    /\ leases = 0
    /\ pc = "Constructed"
    /\ proc = NoProc
    /\ guard = <<>>
    /\ products = NoProducts
    /\ result = NoResult
    /\ preVault = vault
    /\ declared = None
    /\ nprocs = 0
    /\ fedFrom = NoProc

(* The caller asks output() where the procedure would write, then hands the
   procedure to execute. *)
Dispatch ==
    /\ pc \in Boundary
    /\ nprocs < MaxProcs
    /\ \E p \in Procs :
        /\ proc' = p
        /\ declared' = output(p)
    /\ fedFrom' = NoProc
    /\ pc' = "Validated"
    /\ preVault' = vault
    /\ nprocs' = nprocs + 1
    /\ products' = NoProducts
    /\ result' = NoResult
    /\ UNCHANGED clientVars
    /\ UNCHANGED <<vault, leases, guard>>

(* The caller splits the output of the AeadEncrypt that has just returned
   into its first 16 bytes and the rest, and asks for their decryption with
   the same key record, nonce and associated data. *)
DispatchDecryptOfOutput ==
    /\ pc = "Done"
    /\ nprocs < MaxProcs
    /\ proc.variant = "AeadEncrypt"
    /\ result.ok
    /\ proc' = DecryptOfOutput(proc, result.val)
    /\ declared' = output(proc')
    /\ fedFrom' = proc
    /\ pc' = "Validated"
    /\ preVault' = vault
    /\ nprocs' = nprocs + 1
    /\ products' = NoProducts
    /\ result' = NoResult
    /\ UNCHANGED clientVars
    /\ UNCHANGED <<vault, leases, guard>>

(* with_lease: open the record at the source. *)
OpenLease ==
    /\ pc = "Validated"
    /\ NeedsLease(proc)
    /\ IF vault[source(proc)].present
       THEN /\ leases' = leases + 1
            /\ guard' = vault[source(proc)].data
            /\ pc' = "LeaseOpen"
            /\ UNCHANGED result
       ELSE /\ pc' = "Failed"
            /\ result' = ProcedureError("SourceMissing", FALSE)
            /\ UNCHANGED <<leases, guard>>
    /\ UNCHANGED clientVars
    /\ UNCHANGED fedFrom
    /\ UNCHANGED <<vault, proc, products, preVault, declared, nprocs>>

(* derive / use_secret, inside the lease. *)
RunWithLease ==
    /\ pc = "LeaseOpen"
    /\ \E r \in (IF Contract(proc.variant) = "Derive" THEN derive(proc, guard)
                 ELSE use_secret(proc, guard)) :
        /\ leases' = drop_guard(leases, r)
        /\ IF r.ok
           THEN /\ products' = IF Contract(proc.variant) = "Derive" THEN r.val
                               ELSE [output |-> r.val]
                /\ pc' = "Primitive"
                /\ UNCHANGED result
           ELSE /\ pc' = "Failed"
                /\ result' = ProcedureError(r.kind, r.fatal)
                /\ UNCHANGED products
    /\ guard' = <<>>
    /\ UNCHANGED clientVars
    /\ UNCHANGED fedFrom
    /\ UNCHANGED <<vault, proc, preVault, declared, nprocs>>

(* generate / process: no input secret. *)
RunWithoutLease ==
    /\ pc = "Validated"
    /\ ~NeedsLease(proc)
    /\ \E r \in (IF Contract(proc.variant) = "Generate" THEN generate(proc)
                 ELSE Hash_process(proc)) :
        IF r.ok
        THEN /\ products' = IF Contract(proc.variant) = "Generate" THEN r.val
                            ELSE [output |-> r.val]
             /\ pc' = "Primitive"
             /\ UNCHANGED result
        ELSE /\ pc' = "Failed"
             /\ result' = ProcedureError(r.kind, r.fatal)
             /\ UNCHANGED products
    /\ UNCHANGED clientVars
    /\ UNCHANGED fedFrom
    /\ UNCHANGED <<vault, leases, guard, proc, preVault, declared, nprocs>>

(* commit: write the secret to the target under its hint, or fail whole. *)
Commit ==
    /\ pc = "Primitive"
    /\ Persists(proc)
    /\ \/ /\ vault' = [vault EXCEPT ![target(proc).loc] =
                            Record(products.secret, target(proc).hint)]
          /\ pc' = "Commit"
          /\ UNCHANGED result
       \/ /\ pc' = "Failed"
          /\ result' = ProcedureError("TargetWriteFailed", TRUE)
          /\ UNCHANGED vault
    /\ UNCHANGED clientVars
    /\ UNCHANGED fedFrom
    /\ UNCHANGED <<leases, guard, proc, products, preVault, declared, nprocs>>

(* The non-secret output goes back to the caller. *)
Finish ==
    /\ \/ pc = "Commit"
       \/ pc = "Primitive" /\ ~Persists(proc)
    /\ pc' = "Done"
    /\ result' = Ok(products.output)
    /\ products' = NoProducts
    /\ UNCHANGED clientVars
    /\ UNCHANGED fedFrom
    /\ UNCHANGED <<vault, leases, guard, proc, preVault, declared, nprocs>>

EngineNext ==
    \/ Dispatch
    \/ DispatchDecryptOfOutput
    \/ OpenLease
    \/ RunWithLease
    \/ RunWithoutLease
    \/ Commit
    \/ Finish

----------------------------------------------------------------------------
(* The command line client.  The server holds the transactions; the client's
   Vault keeps a view of them in store, which take moves out for the length
   of a closure and then reloads from a fresh List. *)

Tx == {"t1", "t2", "t3"}
Write(t) == [req |-> "Write", tx |-> t]
Delete(t) == [req |-> "Delete", tx |-> t]

(* What the server holds once it has acknowledged a request. *)
Apply(d, r) == IF r.req = "Write" THEN d \cup {r.tx} ELSE d \ {r.tx}

(* DBView::load of what List returned. *)
load(listed) == Some(listed)

(* take putting back the view it moved out, without reloading. *)
reloaded_old(old, listed) == Some(old)

(* What take puts back into store: a view loaded from the List it sends after
   the closure, not the view it moved out. *)
reloaded(old, listed) == load(listed)

(* The requests each closure sends, in the order it sends them; what the
   vault writer puts in them is the writer's choice. *)
create_entry_requests == {<<Write(t)>> : t \in Tx}

revoke_entry_requests == {<<Write(w), Delete(d)>> : w \in Tx, d \in Tx}

(* What the writer's gc hands back: up to two transactions to write and up
   to two to delete. *)
gc_to_write ==
    {<<>>} \cup {<<Write(t)>> : t \in Tx}
           \cup {<<Write(pr[1]), Write(pr[2])>> : pr \in {x \in Tx \X Tx : x[1] # x[2]}}

gc_to_delete ==
    {<<>>} \cup {<<Delete(t)>> : t \in Tx}
           \cup {<<Delete(pr[1]), Delete(pr[2])>> : pr \in {x \in Tx \X Tx : x[1] # x[2]}}

gc_chain_requests_deletes_first == {ds \o ws : ws \in gc_to_write, ds \in gc_to_delete}

gc_chain_requests == {ws \o ds : ws \in gc_to_write, ds \in gc_to_delete}

closure_requests(op) ==
    CASE op = "create_entry" -> create_entry_requests
      [] op = "revoke_entry" -> revoke_entry_requests
      [] op = "gc_chain" -> gc_chain_requests

(* DBView::entries: the ids of the view's entries, in the order the view
   yields them. *)
TxOrder == <<"t1", "t2", "t3">>
entries(view) == SelectSeq(TxOrder, LAMBDA t : t \in view)

(* How a call ends: it returns a value, or expect aborts the thread. *)
Returned(v) == [returned |-> TRUE, val |-> v]
Aborted == [returned |-> FALSE]
NoCall == [called |-> FALSE]

get_entry_by_index_lenient(view, index) ==
    IF Len(entries(view)) > 0 /\ index < Len(entries(view))
    THEN Returned(Some(entries(view)[index + 1]))
    ELSE Returned(None)

(* Vault::get_entry_by_index: None for a view without entries, else nth(index)
   of the entries, and expect on it. *)
get_entry_by_index(view, index) ==
    IF ~(Len(entries(view)) > 0) THEN Returned(None)
    ELSE IF index < Len(entries(view))
         THEN Returned(Some(entries(view)[index + 1]))
         ELSE Aborted

ClientInit ==
    /\ db \in {{}, {"t1"}}
    /\ store = load(db)
    /\ taken = None
    /\ cpc = "idle"
    /\ cop = "none"
    /\ queue = <<>>
    /\ sent = <<>>
    /\ nops = 0
    /\ got = NoCall

(* Vault::take up to the closure's first request: the store is moved out and
   the writer builds the requests; expect aborts when the writer fails. *)
TakeBegin ==
    /\ cpc = "idle"
    /\ nops < MaxOps
    /\ store.some
    /\ nops' = nops + 1
    /\ store' = None
    /\ taken' = store
    /\ sent' = <<>>
    /\ got' = NoCall
    /\ \E op \in {"create_entry", "revoke_entry", "gc_chain"} :
        /\ cop' = op
        /\ \/ \E q \in closure_requests(op) : queue' = q /\ cpc' = "closure"
           \/ queue' = <<>> /\ cpc' = "aborted"
    /\ UNCHANGED engineVars
    /\ UNCHANGED db

(* send_until_success returns once the server has acknowledged the request. *)
SendRequest ==
    /\ cpc = "closure"
    /\ queue # <<>>
    /\ db' = Apply(db, Head(queue))
    /\ sent' = Append(sent, Head(queue))
    /\ queue' = Tail(queue)
    /\ UNCHANGED engineVars
    /\ UNCHANGED <<store, taken, cpc, cop, nops, got>>

(* Vault::take after the closure: List, then load; expect aborts when load
   fails, and the store stays empty. *)
TakeEnd ==
    /\ cpc = "closure"
    /\ queue = <<>>
    /\ \/ store' = reloaded(taken.val, db) /\ cpc' = "idle"
       \/ store' = store /\ cpc' = "aborted"
    /\ taken' = None
    /\ UNCHANGED engineVars
    /\ UNCHANGED <<db, cop, queue, sent, nops, got>>

(* Vault::get_entry_by_index on the store at rest. *)
GetEntry ==
    /\ cpc = "idle"
    /\ store.some
    /\ \E index \in 0..MaxIndex :
        LET r == get_entry_by_index(store.val, index)
        IN  /\ got' = [called |-> TRUE, index |-> index, out |-> r]
            /\ cpc' = IF r.returned THEN "idle" ELSE "aborted"
    /\ UNCHANGED engineVars
    /\ UNCHANGED <<db, store, taken, cop, queue, sent, nops>>

ClientNext ==
    \/ GetEntry
    \/ TakeBegin
    \/ SendRequest
    \/ TakeEnd

----------------------------------------------------------------------------

(* The procedure engine, with the client at rest. *)
Init ==
    /\ EngineInit
    /\ db = {} /\ store = load({}) /\ taken = None /\ cpc = "idle" /\ cop = "none"
    /\ queue = <<>> /\ sent = <<>> /\ nops = 0 /\ got = NoCall

Next == EngineNext

Spec == Init /\ [][Next]_vars

(* The client, with the engine at rest. *)
ClientSpecInit ==
    /\ ClientInit
    /\ vault = [l \in Loc |-> Absent] /\ leases = 0 /\ pc = "Constructed"
    /\ proc = NoProc /\ guard = <<>> /\ products = NoProducts /\ result = NoResult
    /\ preVault = vault /\ declared = None /\ nprocs = 0 /\ fedFrom = NoProc

ClientSpec == ClientSpecInit /\ [][ClientNext]_vars

----------------------------------------------------------------------------
(* Properties of the procedure engine, checked under Spec. *)

Running == proc # NoProc

(* The variants as the specification's table classifies them. *)
GenerateVariants ==
    {"Slip10Generate", "BIP39Generate", "BIP39Recover", "GenerateKey", "Pbkdf2Hmac"}
DeriveVariants == {"CopyRecord", "Slip10Derive", "X25519DiffieHellman", "Hkdf"}
UseVariants == {"PublicKey", "Ed25519Sign", "Hmac", "AeadEncrypt", "AeadDecrypt"}
ReadOnlyVariants == UseVariants \cup {"Hash"}
WritingVariants == GenerateVariants \cup DeriveVariants

(* The contents of the source record when the procedure was dispatched. *)
SourcePresent == preVault[source(proc)].present
SourceData == preVault[source(proc)].data

(* The inputs on which the procedure must fail: the source record is missing,
   an X25519 key record is not 32 bytes long, a SLIP10 parent key record is
   not 64 bytes long, or the SLIP10 chain has a segment that is not hardened. *)
MustFail ==
    /\ Running
    /\ proc.variant \in DeriveVariants \cup UseVariants
    /\ \/ ~SourcePresent
       \/ /\ proc.variant = "X25519DiffieHellman"
          /\ Len(SourceData) # 32
       \/ /\ proc.variant = "Slip10Derive"
          /\ \/ proc.parent_ty = "Key" /\ Len(SourceData) # 64
             \/ \E i \in 1..Len(proc.chain) : ~proc.chain[i].hardened

(* C1: on every failure (source missing, primitive failure, write failure),
   and at every step of an execution that is bound to fail, the vault is
   identical to the vault before the call: the target is still absent or
   byte-identical, and no other record has changed. *)
C1_FailureLeavesVaultUnchanged ==
    (pc = "Failed" \/ MustFail) => vault = preVault

(* C1 witness: X25519DiffieHellman has failed on a 31-byte key record whose
   location is also its target. *)
C1_Witness ==
    /\ pc = "Failed"
    /\ proc.variant = "X25519DiffieHellman"
    /\ proc.private_key = "A" /\ proc.shared_key = "A"
    /\ result.kind = "BufferSize"
    /\ vault["A"].present /\ Len(vault["A"].data) = 31

(* C2: no lease is open at any boundary between procedures, whether the
   primitive returned normally or with a fatal error. *)
C2_NoLeaseAtBoundary ==
    /\ leases \in {0, 1}
    /\ pc \in Boundary => leases = 0
    /\ leases = 1 <=> pc = "LeaseOpen"

(* C2 witness: the second procedure on the runner ended with the fatal
   length-check error of x25519_secret_key, after its lease was opened. *)
C2_Witness ==
    /\ pc = "Failed"
    /\ nprocs = 2
    /\ proc.variant \in {"PublicKey", "X25519DiffieHellman"}
    /\ result.kind = "BufferSize" /\ result.fatal
    /\ SourcePresent

(* The steps of one execution, in order. *)
StepOrder ==
    {<<"Validated", "LeaseOpen">>, <<"Validated", "Primitive">>, <<"Validated", "Failed">>,
     <<"LeaseOpen", "Primitive">>, <<"LeaseOpen", "Failed">>,
     <<"Primitive", "Commit">>, <<"Primitive", "Done">>, <<"Primitive", "Failed">>,
     <<"Commit", "Done">>}
    \cup {<<b, "Validated">> : b \in Boundary}

C3_Step ==
    /\ pc' # pc => <<pc, pc'>> \in StepOrder
    \* a commit only after the primitive returned Products, and only there
    /\ vault' # vault => /\ pc = "Primitive" /\ pc' = "Commit"
                         /\ products # NoProducts
                         /\ vault'[target(proc).loc].data = products.secret
    /\ pc' = "Commit" => vault'[target(proc).loc] = Record(products.secret, target(proc).hint)
    \* the primitive of a Derive or Use variant runs only while its lease is open
    /\ (proc.variant \in DeriveVariants \cup UseVariants /\ pc' = "Primitive")
          => pc = "LeaseOpen" /\ leases = 1 /\ guard = SourceData
    \* Generate variants and Hash never open a lease
    /\ proc'.variant \in GenerateVariants \cup {"Hash"}
          => ~NeedsLease(proc') /\ leases' = 0 /\ pc' # "LeaseOpen"
    \* Use variants and Hash never reach Commit
    /\ proc'.variant \in ReadOnlyVariants => ~Persists(proc') /\ pc' # "Commit"

(* C3: within one execution the steps occur only in the order Validated,
   LeaseOpen, Primitive, Commit, Done; the vault changes only in the step
   from Primitive to Commit, with the primitive's Products; a Derive or Use
   primitive runs only while its lease is open; Generate variants and Hash
   never open a lease; Use variants and Hash never reach Commit. *)
C3_StepsInOrder == [][C3_Step]_vars

(* C3 witness: a Derive variant has gone through every step and written its
   target. *)
C3_Witness ==
    /\ pc = "Done"
    /\ proc.variant = "Hkdf"
    /\ vault # preVault

(* C4: a read-only variant, at every step and whatever its outcome, leaves
   every record as it was and has no write pending. *)
C4_ReadOnlyVariantsLeaveVault ==
    (Running /\ proc.variant \in ReadOnlyVariants) =>
        /\ vault = preVault
        /\ ~Persists(proc)
        /\ pc # "Commit"

(* C4 witness: Ed25519Sign has returned a signature made with the record it
   read. *)
C4_Witness ==
    /\ pc = "Done"
    /\ proc.variant = "Ed25519Sign"
    /\ result.ok /\ Len(result.val) = ED25519_SIGNATURE_LENGTH
    /\ vault[proc.private_key].present

(* C5: output is Some(location) exactly for the writing variants, the
   location is the one target declares and the one a successful execution
   writes, and asking for it changes nothing. *)
C5_OutputIsTheTarget ==
    Running =>
        /\ declared = output(proc)
        /\ declared.some <=> proc.variant \in WritingVariants
        /\ declared.some <=> Persists(proc)
        /\ declared.some => declared.val = target(proc).loc
        /\ pc = "Validated" => vault = preVault
        /\ pc \in {"Commit", "Done"} /\ declared.some =>
              /\ vault[declared.val].present
              /\ vault[declared.val].hint = proc.hint
              /\ \A l \in Loc \ {declared.val} : vault[l] = preVault[l]
        /\ ~declared.some => vault = preVault

(* C5 witness: X25519DiffieHellman has written its shared key to a location
   other than its private key's. *)
C5_Witness ==
    /\ pc = "Commit"
    /\ proc.variant = "X25519DiffieHellman"
    /\ proc.private_key = "A" /\ proc.shared_key = "B"
    /\ declared = Some("B")
    /\ vault["B"].present /\ ~preVault["B"].present

(* C6: after a successful CopyRecord the target holds the bytes the source
   held before the call, under the procedure's hint, the source still holds
   them (and is untouched when it is another location), and no lease is
   open. *)
C6_CopyRecord ==
    (pc = "Done" /\ proc.variant = "CopyRecord") =>
        /\ SourcePresent
        /\ vault[proc.output] = Record(SourceData, proc.hint)
        /\ vault[proc.input].present
        /\ vault[proc.input].data = SourceData
        /\ proc.input # proc.output => vault[proc.input] = preVault[proc.input]
        /\ leases = 0
        /\ result = Ok(Unit)

(* C6 witness: records of 4 and of 64 bytes copied from A to B. *)
C6_Witness ==
    /\ pc = "Done" /\ proc.variant = "CopyRecord"
    /\ proc.input = "A" /\ proc.output = "B"
    /\ vault["A"].hint = InitHint
    /\ vault["B"].data \in {<<222, 173, 190, 239>>, Key32 \o Fill(32, 2)}

(* C8, as claimed: an AEAD request whose nonce has the wrong length never has
   a lease opened for it, and ends with a recoverable error. *)
C8_NonceCheckedBeforeLease ==
    (/\ Running
     /\ proc.variant \in {"AeadEncrypt", "AeadDecrypt"}
     /\ Len(proc.nonce) # NonceLength(proc.alg)) =>
        /\ leases = 0
        /\ pc # "LeaseOpen"
        /\ pc \in Boundary => ~result.ok /\ ~result.fatal

(* C9, as claimed: Pbkdf2Hmac with count = 0 writes nothing and ends with a
   recoverable error. *)
C9_ZeroCountIsRecoverable ==
    (Running /\ proc.variant = "Pbkdf2Hmac" /\ proc.count = 0) =>
        /\ vault = preVault
        /\ pc \in Boundary => ~result.ok /\ ~result.fatal

(* C10: with an Ed25519 key, a record of 32 bytes or more is accepted and
   the result is that of its first 32 bytes, and a shorter record fails; with
   an X25519 key the record must be exactly 32 bytes, and any other length
   fails with the provider's length error. *)
C10_KeyRecordLengths ==
    (/\ pc \in {"Done", "Failed"}
     /\ proc.variant \in {"PublicKey", "Ed25519Sign", "X25519DiffieHellman"}
     /\ SourcePresent) =>
        LET d == SourceData
            first == SubSeq(d, 1, 32)
        IN  CASE proc.variant = "Ed25519Sign" ->
                    IF Len(d) >= 32 THEN result = Ok(ed25519_sign(first, proc.msg))
                    ELSE ~result.ok /\ result.kind = "BufferSize"
              [] proc.variant = "PublicKey" /\ proc.ty = "Ed25519" ->
                    IF Len(d) >= 32 THEN result = Ok(ed25519_public_key(first))
                    ELSE ~result.ok /\ result.kind = "BufferSize"
              [] proc.variant = "PublicKey" /\ proc.ty = "X25519" ->
                    IF Len(d) = 32 THEN result = Ok(x25519_public_key(d))
                    ELSE ~result.ok /\ result.kind = "BufferSize"
              [] proc.variant = "X25519DiffieHellman" ->
                    IF Len(d) = 32
                    THEN \/ /\ result = Ok(Unit)
                            /\ vault[proc.shared_key].data
                                 = x25519_diffie_hellman(d, proc.public_key)
                         \/ ~result.ok /\ result.kind = "TargetWriteFailed"
                    ELSE ~result.ok /\ result.kind = "BufferSize"

(* C10 witness: PublicKey with an Ed25519 key has read a 64-byte record and
   returned the public key of its first 32 bytes. *)
C10_Witness ==
    /\ pc = "Done"
    /\ proc.variant = "PublicKey" /\ proc.ty = "Ed25519"
    /\ SourcePresent /\ Len(SourceData) = 64
    /\ result = Ok(ed25519_public_key(Key32))

(* What the provider computes for an AeadEncrypt request on the key record d. *)
Sealed(p, d) == try_encrypt(p.alg, d, p.nonce, p.associated_data, p.plaintext)

(* An AEAD request whose key record and nonce have the sizes the algorithm
   takes. *)
WellSized(p) ==
    /\ SourcePresent
    /\ Len(SourceData) = AEAD_KEY_LENGTH
    /\ Len(p.nonce) = NonceLength(p.alg)

(* C11: AeadEncrypt with a key record and a nonce of the right sizes returns
   the 16-byte tag followed by the ciphertext, plaintext length + 16 bytes in
   all; and AeadDecrypt of that output, split after its first 16 bytes, with
   the same key record, nonce and associated data returns the plaintext. *)
C11_AeadRoundTrip ==
    /\ (pc \in {"Done", "Failed"} /\ proc.variant = "AeadEncrypt" /\ WellSized(proc)) =>
          /\ pc = "Done"
          /\ result.ok
          /\ Len(result.val) = Len(proc.plaintext) + AEAD_TAG_LENGTH
          /\ SubSeq(result.val, 1, AEAD_TAG_LENGTH) = Sealed(proc, SourceData).val.tag
          /\ SubSeq(result.val, AEAD_TAG_LENGTH + 1, Len(result.val))
                = Sealed(proc, SourceData).val.ctx
    /\ (pc \in {"Done", "Failed"} /\ fedFrom # NoProc) =>
          /\ pc = "Done"
          /\ result = Ok(fedFrom.plaintext)

(* C11 witness: the one-byte plaintext 255, whose ciphertext byte wraps
   around, was encrypted, the output was split and decrypted, and the
   decryption has returned that plaintext. *)
C11_Witness ==
    /\ pc = "Done"
    /\ proc.variant = "AeadDecrypt"
    /\ fedFrom # NoProc
    /\ fedFrom.plaintext = <<255>>
    /\ proc.ciphertext # fedFrom.plaintext
    /\ Len(proc.tag) = AEAD_TAG_LENGTH
    /\ result = Ok(<<255>>)

(* The tag of an AeadDecrypt request has the tag's length but is not the tag
   of its ciphertext under the key record d, its nonce and associated data. *)
TagMismatch(p, d) ==
    /\ Len(p.tag) = AEAD_TAG_LENGTH
    /\ p.tag # AeadTag(d, p.nonce, p.associated_data, p.ciphertext)

(* C12: an AeadDecrypt whose tag does not authenticate the ciphertext under
   the key record, nonce and associated data fails with the provider's
   authentication error as a fatal error, and returns no value: neither
   plaintext nor a partly decrypted buffer. *)
C12_TagMismatchIsFatal ==
    (/\ pc \in {"Done", "Failed"}
     /\ proc.variant = "AeadDecrypt"
     /\ WellSized(proc)
     /\ TagMismatch(proc, SourceData)) =>
        /\ pc = "Failed"
        /\ ~result.ok
        /\ result.fatal
        /\ result.kind = "CipherError"
        /\ "val" \notin DOMAIN result
        /\ products = NoProducts

(* C12 witness: AeadDecrypt of a ciphertext with a 16-byte tag of zeros, on a
   32-byte key record and a nonce of the algorithm's length, has failed. *)
C12_Witness ==
    /\ pc = "Failed"
    /\ proc.variant = "AeadDecrypt"
    /\ WellSized(proc)
    /\ proc.tag = BadTag
    /\ TagMismatch(proc, SourceData)
    /\ ~result.ok

----------------------------------------------------------------------------
(* Properties of the client, checked under ClientSpec. *)

(* The last acknowledged request about each transaction. *)
LastWord(i) == \A j \in (i + 1)..Len(sent) : sent[j].tx # sent[i].tx

(* C7: once take has returned, the store is present again, it is the view
   the server would list now, and it shows every write and every delete the
   closure sent. *)
C7_StoreShowsTheClosuresRequests ==
    cpc = "idle" =>
        /\ store.some
        /\ store.val = db
        /\ \A i \in 1..Len(sent) :
              LastWord(i) => (sent[i].req = "Write" <=> sent[i].tx \in store.val)

(* C7 witness: the second operation, revoke_entry, wrote t2 and deleted t1,
   which the store held before; take has returned. *)
C7_Witness ==
    /\ cpc = "idle"
    /\ nops = 2
    /\ cop = "revoke_entry"
    /\ sent = <<Write("t2"), Delete("t1")>>
    /\ store = Some({"t2"})

(* C13: in revoke_entry and gc_chain every Write the writer produced is
   acknowledged before the first Delete is sent, and the store is absent
   until every request of the closure has been acknowledged: it is reloaded
   only after that. *)
C13_WritesBeforeDeletesBeforeReload ==
    cop \in {"revoke_entry", "gc_chain"} =>
        /\ \A i \in 1..Len(sent) : \A j \in (i + 1)..Len(sent) :
              sent[i].req = "Delete" => sent[j].req = "Delete"
        /\ (\E i \in 1..Len(sent) : sent[i].req = "Delete") =>
              \A k \in 1..Len(queue) : queue[k].req # "Write"
        /\ cpc = "closure" => ~store.some
        /\ store.some => queue = <<>>

(* C13 witness: gc_chain has sent two writes and then two deletes, all are
   acknowledged, and take has reloaded the store. *)
C13_Witness ==
    /\ cpc = "idle"
    /\ cop = "gc_chain"
    /\ Len(sent) = 4
    /\ sent[1].req = "Write" /\ sent[2].req = "Write"
    /\ sent[3].req = "Delete" /\ sent[4].req = "Delete"
    /\ queue = <<>>
    /\ store.some

(* C14: a call of get_entry_by_index returns None when the store holds no
   entries and the id of the index-th entry when index is smaller than the
   number of entries; on a store with entries and an index that is not
   smaller it returns nothing and aborts; and the call leaves the store as
   it was. *)
C14_Step ==
    (got' # got /\ got'.called) =>
        LET n == Cardinality(store.val)
            i == got'.index
        IN  /\ store' = store
            /\ db' = db
            /\ n = 0 => got'.out = Returned(None) /\ cpc' = "idle"
            /\ (n > 0 /\ i < n) =>
                  /\ got'.out = Returned(Some(entries(store.val)[i + 1]))
                  /\ cpc' = "idle"
            /\ (n > 0 /\ i >= n) => got'.out = Aborted /\ cpc' = "aborted"

C14_GetEntryByIndex == [][C14_Step]_vars

(* C14 witness: the store holds two entries after an operation, and
   get_entry_by_index was called with index 2 and aborted. *)
C14_Witness ==
    /\ cpc = "aborted"
    /\ nops > 0
    /\ store.some
    /\ Cardinality(store.val) = 2
    /\ got.called
    /\ got.index = 2
    /\ got.out = Aborted

====
